---- MODULE Spec2Model ----
(***************************************************************************)
(* Model of the decoding and aggregation engine of the flight analysis     *)
(* tool: parse_log in src/app.py.  One record is pulled from the log at a  *)
(* time, its timestamp is resolved, the record is dispatched on its type   *)
(* tag and appended to the accumulator of that type; at the end of the     *)
(* stream the accumulators are packaged into the returned dictionary.      *)
(*                                                                         *)
(* Python values are modelled as tagged records: an int n is [int |-> n],  *)
(* a str s is [str |-> s], a float with value h/100 is [f100 |-> h] (all   *)
(* floats the engine produces are decimal values with two places), and     *)
(* None is [none |-> TRUE].  Python strings are TLA+ strings.              *)
(***************************************************************************)
EXTENDS Integers, Sequences, FiniteSets, TLC

\* ------------------------------------------------------------------ bounds
MaxRecords == 2
MaxBatRecords == 4
MaxFieldRecords == 1

\* ------------------------------------------------------- Python values
None == [none |-> TRUE]
IntV(n) == [int |-> n]
StrV(s) == [str |-> s]
FloatV(h) == [f100 |-> h]

IsInt(v) == DOMAIN v = {"int"}
IsStr(v) == DOMAIN v = {"str"}

Last(s) == s[Len(s)]

Digits == "0123456789"

DigitStr(d) == SubSeq(Digits, d + 1, d + 1)

RECURSIVE NatToStr(_)
NatToStr(n) == IF n < 10 THEN DigitStr(n)
               ELSE NatToStr(n \div 10) \o DigitStr(n % 10)

Abs(n) == IF n < 0 THEN -n ELSE n

\* variant: the sign is lost
IntToStr_nosign(n) == NatToStr(Abs(n))

\* str(int), as an f-string formats an int: a minus sign and the decimal digits
IntToStr(n) == IF n < 0 THEN "-" \o NatToStr(-n) ELSE NatToStr(n)

\* str(float) for a float with value h/100: shortest repr, at least one
\* fractional digit ("2.0", "0.5", "1.23")
FloatToStr(h) ==
    LET a == Abs(h)
        frac == a % 100
        fracStr == IF frac % 10 = 0 THEN DigitStr(frac \div 10)
                   ELSE DigitStr(frac \div 10) \o DigitStr(frac % 10)
    IN (IF h < 0 THEN "-" ELSE "") \o NatToStr(a \div 100) \o "." \o fracStr

\* f"{x}" for a Python value x
Fmt(v) == IF IsInt(v) THEN IntToStr(v.int)
          ELSE IF IsStr(v) THEN v.str
          ELSE IF DOMAIN v = {"f100"} THEN FloatToStr(v.f100)
          ELSE "None"

\* position of a character in Digits, 0 when it is not a digit
DigitPos(c) == IF \E i \in 1..10 : SubSeq(Digits, i, i) = c
               THEN CHOOSE i \in 1..10 : SubSeq(Digits, i, i) = c
               ELSE 0

IsDigitStr(s) == Len(s) > 0 /\ \A i \in 1..Len(s) : DigitPos(SubSeq(s, i, i)) > 0

RECURSIVE DigitsToNat(_)
DigitsToNat(s) == IF Len(s) = 0 THEN 0
                  ELSE 10 * DigitsToNat(SubSeq(s, 1, Len(s) - 1))
                       + (DigitPos(SubSeq(s, Len(s), Len(s))) - 1)

\* float(x): a number converts, a string converts when it spells a number
\* (digit strings here), anything else raises; a raise is reported as None
PyFloat(v) == IF IsInt(v) THEN FloatV(100 * v.int)
              ELSE IF DOMAIN v = {"f100"} THEN v
              ELSE IF IsStr(v) /\ IsDigitStr(v.str) THEN FloatV(100 * DigitsToNat(v.str))
              ELSE None

\* int(x) of an int
PyInt(v) == v.int

\* getattr(msg, name, default): the field's value, the default when absent
getattr(msg, name, default) ==
    IF name \in DOMAIN msg.fields THEN msg.fields[name] ELSE default

get_type(msg) == msg.type

\* dict.get(key, default) on a table keyed by ints
DictGet(table, key, default) ==
    IF IsInt(key) /\ key.int \in DOMAIN table THEN table[key.int] ELSE default

\* -------------------------------------------------- constants and mappings
ERR_SUBSYS_CODES ==
    (0 :> "Main") @@ (1 :> "Radio") @@ (2 :> "Compass") @@ (3 :> "Optical Flow")
    @@ (4 :> "GPS") @@ (5 :> "Battery") @@ (6 :> "Flight Mode") @@ (8 :> "EKF")

ERR_ERROR_CODES ==
    (0 :> "Unspecified") @@ (1 :> "Inconsistent") @@ (2 :> "Missing")
    @@ (3 :> "Too Large") @@ (4 :> "Too Small") @@ (5 :> "Timeout")

EV_ID_MAP ==
    (11 :> "Landing complete") @@ (15 :> "Arm") @@ (17 :> "Disarm")
    @@ (18 :> "Failsafe") @@ (28 :> "Flight mode change")
    @@ (56 :> "Auto mission started") @@ (57 :> "Auto mission complete")
    @@ (62 :> "EKF failsafe triggered")

\* ----------------------------------------------------------------- helpers
\* round(timeus / 1e6, 2): microseconds to seconds, two decimal places (the
\* inputs used are not half-way between two hundredths)
RoundTimeUS(timeus) == FloatV((timeus + 5000) \div 10000)

\* variant: a TimeS that does not convert counts as 0.0 s
safe_time_s_zero(msg) ==
    LET timeus == getattr(msg, "TimeUS", None)
        time_s == getattr(msg, "TimeS", None)
    IN IF timeus # None THEN RoundTimeUS(timeus.int)
       ELSE IF time_s # None
            THEN (IF PyFloat(time_s) = None THEN FloatV(0) ELSE PyFloat(time_s))
       ELSE None

safe_time_s(msg) ==
    LET timeus == getattr(msg, "TimeUS", None)
        time_s == getattr(msg, "TimeS", None)
    IN IF timeus # None THEN RoundTimeUS(timeus.int)
       ELSE IF time_s # None THEN PyFloat(time_s)
       ELSE None

\* ------------------------------------------------------- per-type decoding
\* the line appended to error_msgs for an ERR record
ErrEntry(msg, t) ==
    LET subsys == getattr(msg, "Subsys", IntV(-1))
        ecode == getattr(msg, "ECode", IntV(-1))
        subsys_str == DictGet(ERR_SUBSYS_CODES, subsys, "Unknown Subsys " \o Fmt(subsys))
        ecode_str == DictGet(ERR_ERROR_CODES, ecode, "Unknown ECode " \o Fmt(ecode))
    IN "ERR at " \o Fmt(t) \o "s: " \o subsys_str \o " - " \o ecode_str

\* the label an EV record's id resolves to
EvLabel(msg) ==
    LET eid == getattr(msg, "Id", IntV(-1))
    IN DictGet(EV_ID_MAP, eid, "Unknown Event ID " \o Fmt(eid))

\* the line appended to event_msgs for an EV record
EvEntry(msg, t) == "EV at " \o Fmt(t) \o "s: " \o EvLabel(msg)

\* variant: a record without Id counts as a mode change
IsModeChange_default(msg) == getattr(msg, "Id", IntV(28)) = IntV(28)

\* whether an EV record is the mode change marker
IsModeChange(msg) == getattr(msg, "Id", IntV(-1)) = IntV(28)

\* whether a GPS record carries an altitude
HasAlt(msg) == getattr(msg, "Alt", None) # None

\* variant: integer division, alt_cm // 100
CmToM_floor(alt_cm) == FloatV(100 * (alt_cm.int \div 100))

\* alt_cm / 100.0: centimetres to metres
CmToM(alt_cm) == FloatV(alt_cm.int)

AltEntry(msg, t) ==
    ("Time (s)" :> t) @@ ("Alt_m" :> CmToM(getattr(msg, "Alt", None)))

\* variant: absent fields are left out of the row
Row_present(msg, t, names) ==
    [k \in (names \cap DOMAIN msg.fields) \cup {"Time (s)"} |->
        IF k = "Time (s)" THEN t ELSE getattr(msg, k, None)]

\* a row holding the time and the named fields, None for an absent field
Row(msg, t, names) ==
    [k \in names \cup {"Time (s)"} |->
        IF k = "Time (s)" THEN t ELSE getattr(msg, k, None)]

BatFields == {"Volt", "VoltR", "Curr", "CurrTot", "Temp", "RemPct"}

BatPack(msg) == getattr(msg, "SNum", IntV(0))

BatEntry(msg, t) == Row(msg, t, BatFields) @@ ("SNum" :> BatPack(msg))

\* variant: the group is chosen by the parity of the arrival position
SetDefaultAppend_parity(d, key, entry) ==
    LET n == Cardinality({<<p, i>> \in (DOMAIN d) \X (1..8) : i <= Len(d[p])})
        k == n % 2
    IN IF k \in DOMAIN d THEN [d EXCEPT ![k] = Append(@, entry)]
       ELSE d @@ (k :> <<entry>>)

\* variant: the group is replaced by the new row
SetDefaultAppend_replace(d, key, entry) ==
    IF key \in DOMAIN d THEN [d EXCEPT ![key] = <<entry>>]
    ELSE d @@ (key :> <<entry>>)

\* variant: the row is added to every group
SetDefaultAppend_merge(d, key, entry) ==
    [k \in DOMAIN d \cup {key} |->
        IF k \in DOMAIN d THEN Append(d[k], entry) ELSE <<entry>>]

\* battery_by_pack.setdefault(key, []).append(entry)
SetDefaultAppend(d, key, entry) ==
    IF key \in DOMAIN d THEN [d EXCEPT ![key] = Append(@, entry)]
    ELSE d @@ (key :> <<entry>>)

AttFields == {"DesRoll", "Roll"}
AttEntry(msg, t) == Row(msg, t, AttFields)

EscFields == {"Temp"}
EscEntry(msg, t) == Row(msg, t, EscFields)

VibeFields == {"VibeX", "VibeY", "VibeZ"}
VibeEntry(msg, t) == Row(msg, t, VibeFields)

RcinFields == {"C1", "C2", "C3", "C4"}
RcinEntry(msg, t) == Row(msg, t, RcinFields)

\* f"C{i}" for i in range(1, 17)
RcouFields == {"C" \o IntToStr(i) : i \in 1..16}
RcouEntry(msg, t) == Row(msg, t, RcouFields)

\* pd.DataFrame(rows): one column per key met in the rows, one line per row,
\* a cell missing from a row filled with None
DataFrame(rows) ==
    LET cols == UNION {DOMAIN rows[i] : i \in DOMAIN rows}
    IN [columns |-> cols,
        data |-> [i \in DOMAIN rows |->
                     [c \in cols |-> IF c \in DOMAIN rows[i] THEN rows[i][c] ELSE None]]]

\* -------------------------------------------------------------------- state
VARIABLES
    pc,               \* "loop", "returned" (result handed back), "raised"
    temp_exists,      \* the temporary .bin file is on disk
    mlog,             \* the records recv_match has yielded so far, in order
    count,
    error_msgs, event_msgs, altitude_data, battery_by_pack, attitude_data,
    esc_data, vibe_data, rc_data, rcout_data, mode_data,
    result            \* what parse_log returned, NoResult before and on a raise

accs == <<error_msgs, event_msgs, altitude_data, battery_by_pack, attitude_data,
          esc_data, vibe_data, rc_data, rcout_data, mode_data>>

vars == <<pc, temp_exists, mlog, count, accs, result>>

NoResult == [none |-> TRUE]

Init ==
    /\ pc = "loop"
    /\ temp_exists = TRUE
    /\ mlog = <<>>
    /\ count = 0
    /\ error_msgs = <<>>
    /\ event_msgs = <<>>
    /\ altitude_data = <<>>
    /\ battery_by_pack = <<>>
    /\ attitude_data = <<>>
    /\ esc_data = <<>>
    /\ vibe_data = <<>>
    /\ rc_data = <<>>
    /\ rcout_data = <<>>
    /\ mode_data = <<>>
    /\ result = NoResult

\* ------------------------------------------------------------------ actions
\* one pass of the while loop for a record msg that recv_match yielded
Step(msg) ==
    /\ pc = "loop"
    /\ mlog' = Append(mlog, msg)
    /\ count' = count + 1
    /\ UNCHANGED <<pc, temp_exists, result>>
    /\ LET t == safe_time_s(msg)
           msg_type == get_type(msg)
       IN IF t = None THEN UNCHANGED accs
          ELSE IF msg_type = "ERR" THEN
               /\ error_msgs' = Append(error_msgs, ErrEntry(msg, t))
               /\ UNCHANGED <<event_msgs, altitude_data, battery_by_pack, attitude_data,
                              esc_data, vibe_data, rc_data, rcout_data, mode_data>>
          ELSE IF msg_type = "EV" THEN
               /\ event_msgs' = Append(event_msgs, EvEntry(msg, t))
               /\ mode_data' = IF IsModeChange(msg)
                               THEN Append(mode_data, <<t, EvLabel(msg)>>)
                               ELSE mode_data
               /\ UNCHANGED <<error_msgs, altitude_data, battery_by_pack, attitude_data,
                              esc_data, vibe_data, rc_data, rcout_data>>
          ELSE IF msg_type = "GPS" THEN
               /\ altitude_data' = IF HasAlt(msg)
                                   THEN Append(altitude_data, AltEntry(msg, t))
                                   ELSE altitude_data
               /\ UNCHANGED <<error_msgs, event_msgs, battery_by_pack, attitude_data,
                              esc_data, vibe_data, rc_data, rcout_data, mode_data>>
          ELSE IF msg_type = "BAT" THEN
               /\ battery_by_pack' = SetDefaultAppend(battery_by_pack,
                                         PyInt(BatPack(msg)), BatEntry(msg, t))
               /\ UNCHANGED <<error_msgs, event_msgs, altitude_data, attitude_data,
                              esc_data, vibe_data, rc_data, rcout_data, mode_data>>
          ELSE IF msg_type = "ATT" THEN
               /\ attitude_data' = Append(attitude_data, AttEntry(msg, t))
               /\ UNCHANGED <<error_msgs, event_msgs, altitude_data, battery_by_pack,
                              esc_data, vibe_data, rc_data, rcout_data, mode_data>>
          ELSE IF msg_type = "ESC" THEN
               /\ esc_data' = Append(esc_data, EscEntry(msg, t))
               /\ UNCHANGED <<error_msgs, event_msgs, altitude_data, battery_by_pack,
                              attitude_data, vibe_data, rc_data, rcout_data, mode_data>>
          ELSE IF msg_type = "VIBE" THEN
               /\ vibe_data' = Append(vibe_data, VibeEntry(msg, t))
               /\ UNCHANGED <<error_msgs, event_msgs, altitude_data, battery_by_pack,
                              attitude_data, esc_data, rc_data, rcout_data, mode_data>>
          ELSE IF msg_type = "RCIN" THEN
               /\ rc_data' = Append(rc_data, RcinEntry(msg, t))
               /\ UNCHANGED <<error_msgs, event_msgs, altitude_data, battery_by_pack,
                              attitude_data, esc_data, vibe_data, rcout_data, mode_data>>
          ELSE IF msg_type = "RCOU" THEN
               /\ rcout_data' = Append(rcout_data, RcouEntry(msg, t))
               /\ UNCHANGED <<error_msgs, event_msgs, altitude_data, battery_by_pack,
                              attitude_data, esc_data, vibe_data, rc_data, mode_data>>
          ELSE UNCHANGED accs

\* the dictionary parse_log returns
Assemble ==
    [errors |-> error_msgs,
     events |-> event_msgs,
     modes |-> mode_data,
     altitude_df |-> DataFrame(altitude_data),
     attitude_df |-> DataFrame(attitude_data),
     esc_df |-> DataFrame(esc_data),
     vibe_df |-> DataFrame(vibe_data),
     rc_df |-> DataFrame(rc_data),
     rcout_df |-> DataFrame(rcout_data),
     battery_dfs |-> [k \in DOMAIN battery_by_pack |-> DataFrame(battery_by_pack[k])]]

\* recv_match returns None: leave the loop, build the tables, return, and
\* remove the temporary file on the way out
EndOfStream ==
    /\ pc = "loop"
    /\ pc' = "returned"
    /\ result' = Assemble
    /\ temp_exists' = FALSE
    /\ UNCHANGED <<mlog, count, accs>>

\* variant: the failure is swallowed and the tables are built all the same
SourceFailure_partial ==
    /\ pc = "loop"
    /\ pc' = "raised"
    /\ result' = Assemble
    /\ temp_exists' = FALSE
    /\ UNCHANGED <<mlog, count, accs>>

\* mavlink_connection or recv_match raises: there is no except clause, so
\* the finally block removes the temporary file and the exception leaves
\* parse_log; no dictionary is returned
SourceFailure ==
    /\ pc = "loop"
    /\ pc' = "raised"
    /\ temp_exists' = FALSE
    /\ UNCHANGED <<mlog, count, accs, result>>

\* ----------------------------------------------------------- input records
Rec(type, timeFields, otherFields) == [type |-> type, fields |-> timeFields @@ otherFields]

\* f restricted to the names in S
Restrict(f, S) == [k \in S |-> f[k]]

\* time fields that resolve to a timestamp: 1.23 s from TimeUS next to an
\* unusable TimeS, 2.0 s from TimeS alone
TimedFields ==
    { ("TimeUS" :> IntV(1234567)) @@ ("TimeS" :> StrV("bad")),
      ("TimeS" :> IntV(2)) }

RecordTypes == {"ERR", "EV", "GPS", "BAT", "ATT", "ESC", "VIBE", "RCIN", "RCOU"}

OtherTypes == {"IMU"}

BatFull ==
    ("Volt" :> IntV(12)) @@ ("VoltR" :> IntV(11)) @@ ("Curr" :> IntV(3))
    @@ ("CurrTot" :> IntV(40)) @@ ("Temp" :> IntV(25)) @@ ("RemPct" :> IntV(80))

AttFull == ("DesRoll" :> IntV(5)) @@ ("Roll" :> IntV(4))

EscFull == ("Temp" :> IntV(60))

VibeFull == ("VibeX" :> IntV(1)) @@ ("VibeY" :> IntV(2)) @@ ("VibeZ" :> IntV(3))

RcouFull == [k \in RcouFields |-> IntV(1500)]

RcinFull == Restrict(RcouFull, RcinFields)

\* "C1" .. "Cn"
FirstChannels(n) == {"C" \o IntToStr(i) : i \in 1..n}

ErrFieldSets ==
    { <<>>,
      ("Subsys" :> IntV(4)) @@ ("ECode" :> IntV(2)),
      ("Subsys" :> IntV(7)) }

EvFieldSets == { <<>>, ("Id" :> IntV(28)), ("Id" :> IntV(11)) }

GpsFieldSets == { <<>>, ("Alt" :> IntV(0)), ("Alt" :> IntV(1000)), ("Alt" :> IntV(1234)) }

BatFieldSets == { <<>>, BatFull @@ ("SNum" :> IntV(1)), ("Volt" :> IntV(12)) }

AttFieldSets == { AttFull }
EscFieldSets == { EscFull }
VibeFieldSets == { VibeFull }
RcinFieldSets == { RcinFull }
RcouFieldSets == { Restrict(RcouFull, FirstChannels(8)), RcouFull }

\* every field the engine reads on a record of the given type
FullFields(type) ==
    CASE type = "ERR" -> ("Subsys" :> IntV(4)) @@ ("ECode" :> IntV(2))
      [] type = "EV" -> ("Id" :> IntV(28))
      [] type = "GPS" -> ("Alt" :> IntV(1000))
      [] type = "BAT" -> BatFull @@ ("SNum" :> IntV(1))
      [] type = "ATT" -> AttFull
      [] type = "ESC" -> EscFull
      [] type = "VIBE" -> VibeFull
      [] type = "RCIN" -> RcinFull
      [] type = "RCOU" -> RcouFull
      [] OTHER -> ("Alt" :> IntV(1000))

Timed(type, fieldSets) == {Rec(type, tf, f) : tf \in TimedFields, f \in fieldSets}

\* records without a timestamp: of every type with no time field at all, of
\* three types with a TimeS that does not convert
UntimedRecords ==
    {Rec(ty, <<>>, FullFields(ty)) : ty \in RecordTypes \cup OtherTypes}
    \cup {Rec(ty, ("TimeS" :> StrV("bad")), FullFields(ty)) : ty \in {"ERR", "BAT"} \cup OtherTypes}

OtherRecords == {Rec(ty, tf, FullFields(ty)) : ty \in OtherTypes, tf \in TimedFields}

\* ------------------------------------------------ the engine on a mixed log
RecvUntimed == \E msg \in UntimedRecords : count < MaxRecords /\ Step(msg)
RecvERR == \E msg \in Timed("ERR", ErrFieldSets) : count < MaxRecords /\ Step(msg)
RecvEV == \E msg \in Timed("EV", EvFieldSets) : count < MaxRecords /\ Step(msg)
RecvGPS == \E msg \in Timed("GPS", GpsFieldSets) : count < MaxRecords /\ Step(msg)
RecvBAT == \E msg \in Timed("BAT", BatFieldSets) : count < MaxRecords /\ Step(msg)
RecvATT == \E msg \in Timed("ATT", AttFieldSets) : count < MaxRecords /\ Step(msg)
RecvESC == \E msg \in Timed("ESC", EscFieldSets) : count < MaxRecords /\ Step(msg)
RecvVIBE == \E msg \in Timed("VIBE", VibeFieldSets) : count < MaxRecords /\ Step(msg)
RecvRCIN == \E msg \in Timed("RCIN", RcinFieldSets) : count < MaxRecords /\ Step(msg)
RecvRCOU == \E msg \in Timed("RCOU", RcouFieldSets) : count < MaxRecords /\ Step(msg)
RecvOther == \E msg \in OtherRecords : count < MaxRecords /\ Step(msg)

Next ==
    \/ RecvUntimed
    \/ RecvERR
    \/ RecvEV
    \/ RecvGPS
    \/ RecvBAT
    \/ RecvATT
    \/ RecvESC
    \/ RecvVIBE
    \/ RecvRCIN
    \/ RecvRCOU
    \/ RecvOther
    \/ EndOfStream
    \/ SourceFailure

Spec == Init /\ [][Next]_vars

\* ------------------------------------------- the engine on a battery stream
\* BAT records of packs 0 and 1 and of no stated pack, with and without a
\* voltage, at 1.23 s and 2.0 s, and one BAT record without a timestamp
BatPackFieldSets ==
    { ("Volt" :> IntV(12)),
      ("SNum" :> IntV(0)),
      ("SNum" :> IntV(1)),
      ("SNum" :> IntV(1)) @@ ("Volt" :> IntV(12)) }

BatPackTimes == { ("TimeUS" :> IntV(1234567)), ("TimeS" :> IntV(2)) }

BatPackRecords ==
    {Rec("BAT", tf, f) : tf \in BatPackTimes, f \in BatPackFieldSets}
    \cup {Rec("BAT", <<>>, ("SNum" :> IntV(1)))}

RecvPackBAT == \E msg \in BatPackRecords : count < MaxBatRecords /\ Step(msg)

NextBat == RecvPackBAT \/ EndOfStream \/ SourceFailure

SpecBat == Init /\ [][NextBat]_vars

\* --------------------------- the engine on records with any subset of fields
\* 2.0 s from TimeUS, 3.0 s from a TimeS given as text
FieldTimes == { ("TimeUS" :> IntV(1999999)), ("TimeS" :> StrV("3")) }

Subsets(type, full) ==
    {Rec(type, tf, Restrict(full, S)) : tf \in FieldTimes, S \in SUBSET (DOMAIN full)}

FieldsBAT == \E msg \in Subsets("BAT", BatFull @@ ("SNum" :> IntV(1))) :
                 count < MaxFieldRecords /\ Step(msg)
FieldsATT == \E msg \in Subsets("ATT", AttFull) : count < MaxFieldRecords /\ Step(msg)
FieldsESC == \E msg \in Subsets("ESC", EscFull) : count < MaxFieldRecords /\ Step(msg)
FieldsVIBE == \E msg \in Subsets("VIBE", VibeFull) : count < MaxFieldRecords /\ Step(msg)
FieldsRCIN == \E msg \in Subsets("RCIN", RcinFull) : count < MaxFieldRecords /\ Step(msg)

NextFields ==
    \/ FieldsBAT
    \/ FieldsATT
    \/ FieldsESC
    \/ FieldsVIBE
    \/ FieldsRCIN
    \/ EndOfStream
    \/ SourceFailure

SpecFields == Init /\ [][NextFields]_vars

\* ------------------------------------ the engine on ERR and EV of any code
MaxCodeRecords == 1
MaxNegCode == 2
MaxErrCode == 10
MaxEvId == 63

CodeTimes == { ("TimeS" :> IntV(2)) }

CodeField(name, codes) == {<<>>} \cup {(name :> IntV(c)) : c \in codes}

ErrCodeRecords ==
    {Rec("ERR", tf, s @@ e) : tf \in CodeTimes,
                              s \in CodeField("Subsys", (0 - MaxNegCode)..MaxErrCode),
                              e \in CodeField("ECode", (0 - MaxNegCode)..MaxErrCode)}

EvCodeRecords ==
    {Rec("EV", tf, f) : tf \in CodeTimes, f \in CodeField("Id", (0 - MaxNegCode)..MaxEvId)}

CodesERR == \E msg \in ErrCodeRecords : count < MaxCodeRecords /\ Step(msg)
CodesEV == \E msg \in EvCodeRecords : count < MaxCodeRecords /\ Step(msg)

NextCodes == CodesERR \/ CodesEV \/ EndOfStream \/ SourceFailure

SpecCodes == Init /\ [][NextCodes]_vars

\* =================================================================== claims
\* decimal numerals of 0 .. 80, written out
NumeralTable ==
    <<
       "0", "1", "2", "3", "4", "5", "6", "7", "8", "9", "10", "11", "12",
       "13", "14", "15", "16", "17", "18", "19", "20", "21", "22", "23",
       "24", "25", "26", "27", "28", "29", "30", "31", "32", "33", "34",
       "35", "36", "37", "38", "39", "40", "41", "42", "43", "44", "45",
       "46", "47", "48", "49", "50", "51", "52", "53", "54", "55", "56",
       "57", "58", "59", "60", "61", "62", "63", "64", "65", "66", "67",
       "68", "69", "70", "71", "72", "73", "74", "75", "76", "77", "78",
       "79", "80"
    >>

Numeral(n) == IF n < 0 THEN "-" \o NumeralTable[1 - n] ELSE NumeralTable[n + 1]

EndsWith(s, suffix) ==
    Len(s) >= Len(suffix) /\ SubSeq(s, Len(s) - Len(suffix) + 1, Len(s)) = suffix

Contains(s, sub) ==
    \E i \in 1..(Len(s) - Len(sub) + 1) : SubSeq(s, i, i + Len(sub) - 1) = sub

IsPrefix(s, u) == Len(s) <= Len(u) /\ \A i \in 1..Len(s) : s[i] = u[i]

Present(m, name) == name \in DOMAIN m.fields

\* the record carries a usable TimeUS or, failing that, a usable TimeS
UsableTime(m) ==
    \/ Present(m, "TimeUS")
    \/ /\ Present(m, "TimeS")
       /\ m.fields["TimeS"] \in {IntV(2), StrV("3")}

Received == mlog' # mlog

\* the record the step has just processed
Cur == mlog'[Len(mlog')]

\* C1: a record with neither a usable TimeUS nor a usable TimeS, whatever its
\* type tag, changes no accumulator and the loop goes on
C1_NoTimestampNoObservation ==
    [][(Received /\ ~UsableTime(Cur)) => (UNCHANGED accs /\ pc' = "loop")]_vars

\* C1 witness: after a timestamped BAT record, a BAT record whose only time
\* field is an unusable TimeS has been received and the pack still holds one row
C1_Witness ==
    /\ Len(mlog) = 2
    /\ mlog[1].type = "BAT" /\ UsableTime(mlog[1])
    /\ mlog[2].type = "BAT" /\ ~UsableTime(mlog[2]) /\ Present(mlog[2], "TimeS")
    /\ \E p \in DOMAIN battery_by_pack : Len(battery_by_pack[p]) = 1
    /\ Cardinality(DOMAIN battery_by_pack) = 1

\* the pack id a BAT record states, 0 when it states none
PackOf(m) == IF Present(m, "SNum") THEN m.fields["SNum"].int ELSE 0

TimedOfType(m, type) == m.type = type /\ UsableTime(m)

\* positions in the log of the timestamped BAT records of pack p
BatIdx(p) == {i \in DOMAIN mlog : TimedOfType(mlog[i], "BAT") /\ PackOf(mlog[i]) = p}

\* the k-th smallest element of a set of positions
Kth(S, k) == CHOOSE i \in S : Cardinality({j \in S : j < i}) = k - 1

FieldOrNone(m, name) == IF Present(m, name) THEN m.fields[name] ELSE None

\* pack ids of the timestamped BAT records, in arrival order
PackSeq ==
    LET bats == SelectSeq(mlog, LAMBDA m : TimedOfType(m, "BAT"))
    IN [i \in DOMAIN bats |-> PackOf(bats[i])]

\* C2: a pack group exists exactly for the pack ids met on timestamped BAT
\* records; the k-th row of group p comes from the k-th such record of pack p
\* (same pack id, same voltage, same time); packs 0,1,0,1 give two groups of 2
C2_GroupedByPackId ==
    /\ DOMAIN battery_by_pack = {p \in {PackOf(mlog[i]) : i \in DOMAIN mlog} : BatIdx(p) # {}}
    /\ \A p \in DOMAIN battery_by_pack :
          /\ Len(battery_by_pack[p]) = Cardinality(BatIdx(p))
          /\ \A k \in 1..Len(battery_by_pack[p]) :
                LET m == mlog[Kth(BatIdx(p), k)]
                    row == battery_by_pack[p][k]
                IN /\ row["SNum"] = IntV(p)
                   /\ row["Volt"] = FieldOrNone(m, "Volt")
                   /\ row["Time (s)"] = IF Present(m, "TimeUS") THEN FloatV(123)
                                        ELSE FloatV(200)
    /\ PackSeq = <<0, 1, 0, 1>> =>
          /\ DOMAIN battery_by_pack = {0, 1}
          /\ Len(battery_by_pack[0]) = 2
          /\ Len(battery_by_pack[1]) = 2

\* C2 witness: four timestamped BAT records of packs 0,1,0,1, the first one
\* with no SNum field, have been grouped
C2_Witness ==
    /\ Len(mlog) = 4
    /\ PackSeq = <<0, 1, 0, 1>>
    /\ ~Present(mlog[1], "SNum")
    /\ DOMAIN battery_by_pack = {0, 1}
    /\ Len(battery_by_pack[0]) = 2

SubsysLabel(c) == IF c \in DOMAIN ERR_SUBSYS_CODES THEN ERR_SUBSYS_CODES[c]
                  ELSE "Unknown Subsys " \o Numeral(c)

ECodeLabel(c) == IF c \in DOMAIN ERR_ERROR_CODES THEN ERR_ERROR_CODES[c]
                 ELSE "Unknown ECode " \o Numeral(c)

EventLabel(c) == IF c \in DOMAIN EV_ID_MAP THEN EV_ID_MAP[c]
                 ELSE "Unknown Event ID " \o Numeral(c)

CodeOf(m, name) == IF Present(m, name) THEN m.fields[name].int ELSE -1

\* C3: a timestamped ERR (EV) record of any subsystem and error code (event
\* id), absent codes counting as -1, appends exactly one line to the error
\* (event) log and the loop goes on; a code of the table shows by its label,
\* any other by "Unknown <category> <code>" with the code in decimal
C3_DecodingIsTotal ==
    [][Received =>
         /\ pc' = "loop"
         /\ TimedOfType(Cur, "ERR") =>
               /\ Len(error_msgs') = Len(error_msgs) + 1
               /\ SubSeq(error_msgs', 1, Len(error_msgs)) = error_msgs
               /\ Contains(error_msgs'[Len(error_msgs')],
                     "s: " \o SubsysLabel(CodeOf(Cur, "Subsys")) \o " - ")
               /\ EndsWith(error_msgs'[Len(error_msgs')],
                     " - " \o ECodeLabel(CodeOf(Cur, "ECode")))
         /\ TimedOfType(Cur, "EV") =>
               /\ Len(event_msgs') = Len(event_msgs) + 1
               /\ SubSeq(event_msgs', 1, Len(event_msgs)) = event_msgs
               /\ EndsWith(event_msgs'[Len(event_msgs')],
                     "s: " \o EventLabel(CodeOf(Cur, "Id")))
    ]_vars

\* C3 witness: an ERR record with no Subsys field and the unknown error code 7
\* has been decoded
C3_Witness ==
    /\ Len(mlog) = 1
    /\ mlog[1].type = "ERR" /\ ~Present(mlog[1], "Subsys")
    /\ error_msgs = <<"ERR at 2.0s: Unknown Subsys -1 - Unknown ECode 7">>

\* C4: the row of a timestamped RCOU record has exactly the channel keys
\* C1..C16 present on the record (and the time), none of them None
C4_ExactChannelKeys ==
    (Len(mlog) > 0 /\ TimedOfType(Last(mlog), "RCOU")) =>
        /\ Len(rcout_data) > 0
        /\ DOMAIN Last(rcout_data)
             = (DOMAIN Last(mlog).fields \cap RcouFields) \cup {"Time (s)"}
        /\ \A k \in DOMAIN Last(rcout_data) : Last(rcout_data)[k] # None

ResultHoldsAccumulated ==
    /\ result # NoResult
    /\ result.errors = error_msgs
    /\ result.events = event_msgs
    /\ result.modes = mode_data
    /\ result.altitude_df.data = altitude_data
    /\ result.attitude_df.data = attitude_data
    /\ result.esc_df.data = esc_data
    /\ result.vibe_df.data = vibe_data
    /\ result.rc_df.data = rc_data
    /\ result.rcout_df.data = rcout_data
    /\ DOMAIN result.battery_dfs = DOMAIN battery_by_pack
    /\ \A p \in DOMAIN battery_by_pack : result.battery_dfs[p].data = battery_by_pack[p]

ModeChangeLine(line) == EndsWith(line, "s: Flight mode change")

\* positions in the event log of the flight mode change lines
ModeIdx == {i \in DOMAIN event_msgs : ModeChangeLine(event_msgs[i])}

\* C6: a step appends a mode change marker exactly when it has processed a
\* timestamped EV record whose line in the event log reads "Flight mode
\* change"; the marker then carries the time and label of that line; and at
\* any time the k-th marker matches the k-th such line of the event log
C6_ModesDerivedFromEvents ==
    /\ [](/\ Len(mode_data) = Cardinality(ModeIdx)
          /\ \A k \in DOMAIN mode_data :
                event_msgs[Kth(ModeIdx, k)]
                  = "EV at " \o Fmt(mode_data[k][1]) \o "s: " \o mode_data[k][2])
    /\ [][Received =>
            /\ SubSeq(mode_data', 1, Len(mode_data)) = mode_data
            /\ Len(mode_data') \in {Len(mode_data), Len(mode_data) + 1}
            /\ Len(mode_data') = Len(mode_data) + 1
                 <=> /\ TimedOfType(Cur, "EV")
                     /\ Len(event_msgs') = Len(event_msgs) + 1
                     /\ ModeChangeLine(event_msgs'[Len(event_msgs')])
       ]_vars

\* C6 witness: a landing event and then a flight mode change at 1.23 s have
\* been logged and only the second one has a marker
C6_Witness ==
    /\ Len(event_msgs) = 2
    /\ ~ModeChangeLine(event_msgs[1])
    /\ event_msgs[2] = "EV at 1.23s: Flight mode change"
    /\ mode_data = << <<FloatV(123), "Flight mode change">> >>

\* metres, as printed, of the altitudes the records carry in centimetres
AltText == (0 :> "0.0") @@ (1000 :> "10.0") @@ (1234 :> "12.34")

\* C7: a timestamped GPS record without Alt appends nothing to the altitude
\* channel; with Alt = v it appends exactly one row whose altitude is v / 100
\* metres (0 -> 0.0, 1000 -> 10.0, 1234 -> 12.34)
C7_AltitudeInMetres ==
    [][(Received /\ TimedOfType(Cur, "GPS")) =>
          IF ~Present(Cur, "Alt") THEN altitude_data' = altitude_data
          ELSE /\ Len(altitude_data') = Len(altitude_data) + 1
               /\ SubSeq(altitude_data', 1, Len(altitude_data)) = altitude_data
               /\ LET row == altitude_data'[Len(altitude_data')]
                      v == Cur.fields["Alt"].int
                  IN /\ DOMAIN row = {"Time (s)", "Alt_m"}
                     /\ DOMAIN row["Alt_m"] = {"f100"}
                     /\ row["Alt_m"].f100 = v
                     /\ Fmt(row["Alt_m"]) = AltText[v]
    ]_vars

\* C7 witness: a GPS record without Alt, then one with Alt = 1234, have been
\* processed and the channel holds the single altitude 12.34
C7_Witness ==
    /\ Len(mlog) = 2
    /\ TimedOfType(mlog[1], "GPS") /\ ~Present(mlog[1], "Alt")
    /\ TimedOfType(mlog[2], "GPS") /\ FieldOrNone(mlog[2], "Alt") = IntV(1234)
    /\ Len(altitude_data) = 1
    /\ Fmt(altitude_data[1]["Alt_m"]) = "12.34"

\* the optional fields of the five channel types with nullable fields
OptionalFields(type) ==
    CASE type = "BAT" -> {"Volt", "VoltR", "Curr", "CurrTot", "Temp", "RemPct"}
      [] type = "ATT" -> {"DesRoll", "Roll"}
      [] type = "ESC" -> {"Temp"}
      [] type = "VIBE" -> {"VibeX", "VibeY", "VibeZ"}
      [] type = "RCIN" -> {"C1", "C2", "C3", "C4"}

\* the channel of a type, before (FALSE) or after (TRUE) the step
ChannelOf(type, m, after) ==
    CASE type = "BAT" ->
            IF after
            THEN (IF PackOf(m) \in DOMAIN battery_by_pack' THEN battery_by_pack'[PackOf(m)] ELSE <<>>)
            ELSE (IF PackOf(m) \in DOMAIN battery_by_pack THEN battery_by_pack[PackOf(m)] ELSE <<>>)
      [] type = "ATT" -> IF after THEN attitude_data' ELSE attitude_data
      [] type = "ESC" -> IF after THEN esc_data' ELSE esc_data
      [] type = "VIBE" -> IF after THEN vibe_data' ELSE vibe_data
      [] type = "RCIN" -> IF after THEN rc_data' ELSE rc_data

\* C8: a timestamped BAT, ATT, ESC, VIBE or RCIN record appends exactly one
\* row to its channel whatever subset of its optional fields it carries; the
\* row shows every optional field, a present one with its value and an absent
\* one as None, and the loop goes on
C8_AbsentFieldsAreNull ==
    [][\A type \in {"BAT", "ATT", "ESC", "VIBE", "RCIN"} :
         (Received /\ TimedOfType(Cur, type)) =>
            LET before == ChannelOf(type, Cur, FALSE)
                after == ChannelOf(type, Cur, TRUE)
            IN /\ pc' = "loop"
               /\ Len(after) = Len(before) + 1
               /\ SubSeq(after, 1, Len(before)) = before
               /\ OptionalFields(type) \subseteq DOMAIN after[Len(after)]
               /\ \A f \in OptionalFields(type) :
                     after[Len(after)][f] = FieldOrNone(Cur, f)
    ]_vars

\* C8 witness: a VIBE record carrying only VibeY has given a row with VibeY
\* set and VibeX, VibeZ None
C8_Witness ==
    /\ Len(mlog) = 1
    /\ mlog[1].type = "VIBE"
    /\ DOMAIN mlog[1].fields \cap {"VibeX", "VibeY", "VibeZ"} = {"VibeY"}
    /\ Len(vibe_data) = 1
    /\ vibe_data[1]["VibeX"] = None
    /\ vibe_data[1]["VibeY"] = IntV(2)
    /\ vibe_data[1]["VibeZ"] = None

\* number of records of the log that satisfy P
CountLog(P(_)) == Cardinality({i \in DOMAIN mlog : P(mlog[i])})

PacksSeen == {PackOf(mlog[i]) : i \in DOMAIN mlog}

\* C9: every step leaves the former contents of every accumulator as a
\* prefix of its new contents (no pack group disappears either), and at any
\* time each accumulator is as long as the number of records routed to it
C9_AppendOnly ==
    /\ [][/\ IsPrefix(error_msgs, error_msgs')
          /\ IsPrefix(event_msgs, event_msgs')
          /\ IsPrefix(mode_data, mode_data')
          /\ IsPrefix(altitude_data, altitude_data')
          /\ IsPrefix(attitude_data, attitude_data')
          /\ IsPrefix(esc_data, esc_data')
          /\ IsPrefix(vibe_data, vibe_data')
          /\ IsPrefix(rc_data, rc_data')
          /\ IsPrefix(rcout_data, rcout_data')
          /\ DOMAIN battery_by_pack \subseteq DOMAIN battery_by_pack'
          /\ \A p \in DOMAIN battery_by_pack :
                IsPrefix(battery_by_pack[p], battery_by_pack'[p])
       ]_vars
    /\ [](/\ Len(error_msgs) = CountLog(LAMBDA m : TimedOfType(m, "ERR"))
          /\ Len(event_msgs) = CountLog(LAMBDA m : TimedOfType(m, "EV"))
          /\ Len(mode_data) = CountLog(LAMBDA m : TimedOfType(m, "EV")
                                                   /\ FieldOrNone(m, "Id") = IntV(28))
          /\ Len(altitude_data) = CountLog(LAMBDA m : TimedOfType(m, "GPS")
                                                       /\ Present(m, "Alt"))
          /\ Len(attitude_data) = CountLog(LAMBDA m : TimedOfType(m, "ATT"))
          /\ Len(esc_data) = CountLog(LAMBDA m : TimedOfType(m, "ESC"))
          /\ Len(vibe_data) = CountLog(LAMBDA m : TimedOfType(m, "VIBE"))
          /\ Len(rc_data) = CountLog(LAMBDA m : TimedOfType(m, "RCIN"))
          /\ Len(rcout_data) = CountLog(LAMBDA m : TimedOfType(m, "RCOU"))
          /\ \A p \in PacksSeen \cup DOMAIN battery_by_pack :
                (IF p \in DOMAIN battery_by_pack THEN Len(battery_by_pack[p]) ELSE 0)
                   = Cardinality(BatIdx(p)))

\* C9 witness: two GPS records whose timestamps go backwards have given two
\* altitude rows, kept in arrival order
C9_Witness ==
    /\ Len(mlog) = 2
    /\ Len(altitude_data) = 2
    /\ altitude_data[1]["Time (s)"].f100 > altitude_data[2]["Time (s)"].f100

\* C10: a step changes only the accumulators of the processed record's type:
\* ERR the error log, EV the event log and, for a flight mode change, the mode
\* timeline, GPS altitude, BAT the group of its own pack, ATT attitude, ESC
\* esc_temp, VIBE vibration, RCIN rc_in, RCOU rc_out; any other type changes
\* nothing and the loop goes on
C10_OnlyOwnAccumulator ==
    [][Received =>
         /\ pc' = "loop"
         /\ Cur.type # "ERR" => error_msgs' = error_msgs
         /\ Cur.type # "EV" => (event_msgs' = event_msgs /\ mode_data' = mode_data)
         /\ (Cur.type = "EV" /\ FieldOrNone(Cur, "Id") # IntV(28)) => mode_data' = mode_data
         /\ Cur.type # "GPS" => altitude_data' = altitude_data
         /\ Cur.type # "BAT" => battery_by_pack' = battery_by_pack
         /\ Cur.type = "BAT" =>
               /\ DOMAIN battery_by_pack' \subseteq DOMAIN battery_by_pack \cup {PackOf(Cur)}
               /\ \A p \in DOMAIN battery_by_pack :
                     p # PackOf(Cur) =>
                        (p \in DOMAIN battery_by_pack' /\ battery_by_pack'[p] = battery_by_pack[p])
         /\ Cur.type # "ATT" => attitude_data' = attitude_data
         /\ Cur.type # "ESC" => esc_data' = esc_data
         /\ Cur.type # "VIBE" => vibe_data' = vibe_data
         /\ Cur.type # "RCIN" => rc_data' = rc_data
         /\ Cur.type # "RCOU" => rcout_data' = rcout_data
         /\ Cur.type \notin RecordTypes => UNCHANGED accs
    ]_vars

\* C10 witness: a timestamped record of an unhandled type arrived after an
\* ERR record; the error log holds its one line and nothing else holds any
C10_Witness ==
    /\ Len(mlog) = 2
    /\ TimedOfType(mlog[1], "ERR")
    /\ mlog[2].type \notin RecordTypes /\ UsableTime(mlog[2])
    /\ Len(error_msgs) = 1
    /\ altitude_data = <<>>
    /\ battery_by_pack = <<>>

====
